---- MODULE Spec2Model ----
(***************************************************************************)
(* The LZMA decoder of package lzma (decoder.go) as a state machine: the   *)
(* Read / fill / decodeOp loop, the 12-state register, the rep history and *)
(* the length accounting against unpackLen.                                *)
(*                                                                         *)
(* The compressed input is seen at the level of the values that the calls  *)
(* X.Decode(d.rd) of decodeOp return: a "coded operation" is the list of   *)
(* those values for one call of decodeOp, together with the number of the  *)
(* Decode call, if any, at which the range decoder runs out of input bytes *)
(* (field cut).  The range decoder, the codecs, the decoder dictionary and *)
(* the encoder follow sections 4.A, 4.G and 4.I of the specification.      *)
(***************************************************************************)
EXTENDS Integers, Sequences, FiniteSets, TLC

\* ------------------------------------------------------------------ bounds

\* longest plain text given to the encoder
MaxLen == 3
\* the decoder is not asked for another operation once it has counted this
\* many bytes (it caps the output of a stream with no declared length)
MaxTotal == 3
\* largest len(p) of a Read call
MaxP == 2
\* the Read calls a caller still makes after a Read has returned a decoding
\* error
MaxRetries == 2

\* NewEncoderDict(dictCap, bufCap), scaled
dictCap == 2
bufCap == 5
\* longest p of a Write to an encoder dictionary, and the bytes stored in
\* one in all
MaxWrite == 3
MaxWritten == 9

\* the length offsets and distance offsets coded in an input
LenOffs == {0, 1}
DistOffs == {0, 1}

\* --------------------------------------------------------------- constants

states == 12
\* var bufferLen = 64 * (1 << 10); scaled down so that fill leaves its loop
\* with readable() >= b
bufferLen == 2
\* properties.DictLen, the history length of the decoder dictionary, scaled
historyLen == 2
\* 1<<64 - 1 and 0xffffffff do not fit the integers of the model checker; the
\* decoder only compares them and, for the latter, adds minDistance
noUnpackLen == 2147483647
eosDistance == 2147483000
minLength == 2
minDistance == 1

\* newHashTable(dictCap, 4): the word length of the matcher
wordLen == 4

Bytes == {0, 200}

nil == "nil"
ioEOF == "EOF"
errUnexpectedEOS == "unexpected end of stream marker"
errShortInput == "unexpected end of compressed stream"
errTooLong == "decoded stream too long"
errWrongTermination == "range decoder doesn't support termination"
eofDecoded == "EOF of decoded stream"
\* the error of applyDecoderDict for a distance outside the history
\* the error of a Write that exceeds the space of the buffer
errNoSpace == "insufficient space"
\* the panic of encoderDict.Advance
errAdvance == "Advance: n out of range"
errDistance == "distance out of range"

\* fmt.Errorf("LZMA - %s", err)
Errorf(err) == "LZMA - " \o err

Min(a, b) == IF a < b THEN a ELSE b

RECURSIVE Pow2(_)
Pow2(k) == IF k = 0 THEN 1 ELSE 2 * Pow2(k - 1)

\* ----------------------------------------------------------- state machine

\* updateStateLiteral without its first branch: the subtraction underflows
updateStateLiteralNoFloor(s) == IF s < 10 THEN s - 3 ELSE s - 6

\* updateStateLiteral without its last branch
updateStateLiteralTwoBranches(s) == IF s < 4 THEN 0 ELSE s - 3

updateStateLiteral(s) ==
    IF s < 4 THEN 0
    ELSE IF s < 10 THEN s - 3
    ELSE s - 6

\* updateStateMatch with the comparison s <= 7
updateStateMatchOffByOne(s) == IF s <= 7 THEN 7 ELSE 10

updateStateMatch(s) == IF s < 7 THEN 7 ELSE 10

updateStateRep(s) == IF s < 7 THEN 8 ELSE 11

\* updateStateShortRep taking the states of updateStateRep
updateStateShortRepAsRep(s) == IF s < 7 THEN 8 ELSE 11

updateStateShortRep(s) == IF s < 7 THEN 9 ELSE 11

\* ------------------------------------------------------------- operations

\* the operation interface: lit{s} and rep{length, distance}
noOp == [t |-> "none", b |-> 0, length |-> 0, distance |-> 0]
litOp(b) == [t |-> "lit", b |-> b, length |-> 1, distance |-> 0]
repOp(length, distance) ==
    [t |-> "rep", b |-> 0, length |-> length, distance |-> distance]

\* operation.Len()
OpLen(op) == IF op.t = "lit" THEN 1 ELSE op.length

\* ------------------------------------------------------ decoder dictionary

\* decoderDict: data is everything written so far (total = Len(data)), r the
\* number of bytes already handed to the reader, eof the sticky flag
newDecoderDict == [data |-> <<>>, r |-> 0, eof |-> FALSE]

total(dict) == Len(dict.data)

readable(dict) == total(dict) - dict.r

\* the byte distance positions behind the head; 0 before the stream start
getByte(dict, distance) ==
    IF 0 < distance /\ distance <= Min(total(dict), historyLen)
    THEN dict.data[total(dict) - distance + 1]
    ELSE 0

\* copy_match: one byte after the other, so that the copy reads the bytes it
\* has just written when length > distance
RECURSIVE copyMatch(_, _, _)
copyMatch(data, length, distance) ==
    IF length = 0 THEN data
    ELSE copyMatch(Append(data, data[Len(data) - distance + 1]),
                   length - 1, distance)

\* op.applyDecoderDict(d.dict): the new dictionary and the error
applyDecoderDict(op, dict) ==
    IF op.t = "lit"
    THEN [dict |-> [dict EXCEPT !.data = Append(@, op.b)], err |-> nil]
    ELSE IF op.distance < 1 \/ op.distance > Min(total(dict), historyLen)
    THEN [dict |-> dict, err |-> errDistance]
    ELSE [dict |-> [dict EXCEPT
                       !.data = copyMatch(@, op.length, op.distance)],
          err |-> nil]

\* d.dict.Read(p) for len(p) = k: the bytes copied, the dictionary and the
\* error, io.EOF once eof is set and nothing is left to read
dictRead(dict, k) ==
    LET m == Min(k, readable(dict))
    IN  [bytes |-> SubSeq(dict.data, dict.r + 1, dict.r + m),
         dict |-> [dict EXCEPT !.r = @ + m],
         err |-> IF m = 0 /\ dict.eof THEN ioEOF ELSE nil]

\* -------------------------------------------------------------- decodeOp

\* the result of decodeOp, with the decoder fields it has assigned
opResult(op, err, s, r) == [op |-> op, err |-> err, state |-> s, rep |-> r]

\* the literal branch dropping the error of litDecoder.Decode
decodeLiteralOpNoErr(s, r, c) ==
    opResult(litOp(c.b), nil, updateStateLiteral(s), r)

\* lines 284-292: the literal branch; c.cut = 2 is litDecoder.Decode failing
decodeLiteralOp(s, r, c) ==
    IF c.cut = 2 THEN opResult(noOp, ioEOF, s, r)
    ELSE opResult(litOp(c.b), nil, updateStateLiteral(s), r)

\* the simple match without the shift of rep
decodeSimpleMatchNoShift(s, r, c) ==
    LET s1 == updateStateMatch(s)
        r2 == [r EXCEPT ![1] = c.d]
    IN  IF c.cut = 3 THEN opResult(noOp, ioEOF, s1, r)
        ELSE IF c.cut = 4 THEN opResult(noOp, ioEOF, s1, r2)
        ELSE IF c.d = eosDistance
        THEN IF ~c.atEnd
             THEN opResult(noOp, errWrongTermination, s1, r2)
             ELSE opResult(noOp, eofDecoded, s1, r2)
        ELSE opResult(repOp(c.l + minLength, c.d + minDistance), nil, s1, r2)

\* lines 297-321: the simple match; the shift of rep and updateStateMatch
\* come before the length and the distance are decoded
decodeSimpleMatch(s, r, c) ==
    LET r1 == <<r[1], r[1], r[2], r[3]>>
        s1 == updateStateMatch(s)
        r2 == [r1 EXCEPT ![1] = c.d]
    IN  IF c.cut = 3 THEN opResult(noOp, ioEOF, s1, r1)
        ELSE IF c.cut = 4 THEN opResult(noOp, ioEOF, s1, r2)
        ELSE IF c.d = eosDistance
        THEN IF ~c.atEnd
             THEN opResult(noOp, errWrongTermination, s1, r2)
             ELSE opResult(noOp, eofDecoded, s1, r2)
        ELSE opResult(repOp(c.l + minLength, c.d + minDistance), nil, s1, r2)

\* the rep matches without d.rep[3] = d.rep[2] in the rep3 branch
decodeRepMatchNoShift3(s, r, c) ==
    IF c.cut = 3 THEN opResult(noOp, ioEOF, s, r)
    ELSE IF c.kind \in {"shortrep", "rep0"}
    THEN IF c.cut = 4 THEN opResult(noOp, ioEOF, s, r)
         ELSE IF c.kind = "shortrep"
         THEN opResult(repOp(1, r[1] + minDistance), nil,
                       updateStateShortRep(s), r)
         ELSE IF c.cut = 5 THEN opResult(noOp, ioEOF, s, r)
         ELSE opResult(repOp(c.l + minLength, r[1] + minDistance), nil,
                       updateStateRep(s), r)
    ELSE IF c.cut = 4 THEN opResult(noOp, ioEOF, s, r)
    ELSE IF c.kind = "rep1"
    THEN LET r1 == <<r[2], r[1], r[3], r[4]>>
         IN  IF c.cut = 5 THEN opResult(noOp, ioEOF, s, r1)
             ELSE opResult(repOp(c.l + minLength, r[2] + minDistance), nil,
                           updateStateRep(s), r1)
    ELSE IF c.cut = 5 THEN opResult(noOp, ioEOF, s, r)
    ELSE LET dist == IF c.kind = "rep2" THEN r[3] ELSE r[4]
             r1 == <<dist, r[1], r[2], r[4]>>
         IN  IF c.cut = 6 THEN opResult(noOp, ioEOF, s, r1)
             ELSE opResult(repOp(c.l + minLength, dist + minDistance), nil,
                           updateStateRep(s), r1)

\* lines 322-368: short rep and rep0..rep3
decodeRepMatch(s, r, c) ==
    IF c.cut = 3 THEN opResult(noOp, ioEOF, s, r)
    ELSE IF c.kind \in {"shortrep", "rep0"}
    THEN IF c.cut = 4 THEN opResult(noOp, ioEOF, s, r)
         ELSE IF c.kind = "shortrep"
         THEN opResult(repOp(1, r[1] + minDistance), nil,
                       updateStateShortRep(s), r)
         ELSE IF c.cut = 5 THEN opResult(noOp, ioEOF, s, r)
         ELSE opResult(repOp(c.l + minLength, r[1] + minDistance), nil,
                       updateStateRep(s), r)
    ELSE IF c.cut = 4 THEN opResult(noOp, ioEOF, s, r)
    ELSE IF c.kind = "rep1"
    THEN LET r1 == <<r[2], r[1], r[3], r[4]>>
         IN  IF c.cut = 5 THEN opResult(noOp, ioEOF, s, r1)
             ELSE opResult(repOp(c.l + minLength, r[2] + minDistance), nil,
                           updateStateRep(s), r1)
    ELSE IF c.cut = 5 THEN opResult(noOp, ioEOF, s, r)
    ELSE LET dist == IF c.kind = "rep2" THEN r[3] ELSE r[4]
             r1 == IF c.kind = "rep2"
                   THEN <<dist, r[1], r[2], r[4]>>
                   ELSE <<dist, r[1], r[2], r[3]>>
         IN  IF c.cut = 6 THEN opResult(noOp, ioEOF, s, r1)
             ELSE opResult(repOp(c.l + minLength, dist + minDistance), nil,
                           updateStateRep(s), r1)

\* decodeOp on the coded operation c, from state s and rep history r
decodeOp(s, r, c) ==
    IF c.cut = 1 THEN opResult(noOp, ioEOF, s, r)
    ELSE IF c.kind = "lit" THEN decodeLiteralOp(s, r, c)
    ELSE IF c.cut = 2 THEN opResult(noOp, ioEOF, s, r)
    ELSE IF c.kind = "match" THEN decodeSimpleMatch(s, r, c)
    ELSE decodeRepMatch(s, r, c)

\* ------------------------------------------------------- compressed input

Kinds == {"lit", "match", "shortrep", "rep0", "rep1", "rep2", "rep3"}

\* a coded operation: the values the Decode calls of one decodeOp return
\* (kind stands for the bits of isMatch, isRep, isRepG0, isRepG0Long, isRepG1
\* and isRepG2; b, l and d for the literal, the length offset and the distance
\* offset; atEnd for rd.possiblyAtEnd()), the Decode call that runs out of
\* input (cut, 0 for none), and the contexts the encoder coded it with
codedOp(kind, b, l, d, atEnd, cut) ==
    [kind |-> kind, b |-> b, l |-> l, d |-> d, atEnd |-> atEnd, cut |-> cut,
     st |-> 0, ps |-> 0, ls |-> 0, mb |-> 0]

\* the number of Decode calls decodeOp makes for an operation of this kind
numCalls(kind) ==
    CASE kind = "lit" -> 2
      [] kind \in {"match", "shortrep"} -> 4
      [] kind \in {"rep0", "rep1"} -> 5
      [] OTHER -> 6

\* every operation an input can code that the decoder reads to its end
WholeOps ==
    {codedOp("lit", b, 0, 0, FALSE, 0) : b \in Bytes}
    \cup {codedOp("match", 0, l, d, FALSE, 0) :
             l \in LenOffs, d \in DistOffs}
    \cup {codedOp("match", 0, 0, eosDistance, e, 0) : e \in BOOLEAN}
    \cup {codedOp("shortrep", 0, 0, 0, FALSE, 0)}
    \cup {codedOp(k, 0, l, 0, FALSE, 0) :
             k \in {"rep0", "rep1", "rep2", "rep3"}, l \in LenOffs}

\* the input ends inside the operation, at its Decode call number cut: one
\* operation for every Decode call of decodeOp, and for every rep history
\* the call of repLengthDecoder.Decode can leave behind
CutOps ==
    {codedOp("lit", 0, 0, 0, FALSE, c) : c \in {1, 2}}
    \cup {codedOp("match", 0, 0, 0, FALSE, c) : c \in {2, 3, 4}}
    \cup {codedOp("shortrep", 0, 0, 0, FALSE, c) : c \in {3, 4}}
    \cup {codedOp("rep0", 0, 0, 0, FALSE, 5)}
    \cup {codedOp("rep1", 0, 0, 0, FALSE, c) : c \in {4, 5}}
    \cup {codedOp("rep2", 0, 0, 0, FALSE, c) : c \in {5, 6}}
    \cup {codedOp("rep3", 0, 0, 0, FALSE, 6)}

\* what an arbitrary input can code; decodeOp and fill never look at the
\* value of a byte, so that its literals are all taken to be 0
RawOps == {c \in WholeOps : c.b = 0} \cup CutOps

\* once the input has ended no complete end of stream marker can be decoded:
\* its 26 direct bits take three more input bytes
GarbageOps == {c \in RawOps : c.d # eosDistance}

\* the output bytes the coded operation stands for
codedLen(c) ==
    IF c.cut # 0 \/ c.d = eosDistance THEN 0
    ELSE IF c.kind \in {"lit", "shortrep"} THEN 1
    ELSE c.l + minLength

\* --------------------------------------------------------------- contexts

PropsSet == {[LC |-> 0, LP |-> 0, PB |-> 0], [LC |-> 1, LP |-> 1, PB |-> 1]}

\* posState := uint32(d.dict.total) & d.posBitMask
posState(tot, pr) == tot % Pow2(pr.PB)

\* litState of decodeLiteral
litState(tot, prevByte, pr) ==
    (tot % Pow2(pr.LP)) * Pow2(pr.LC) + (prevByte \div Pow2(8 - pr.LC))

\* ---------------------------------------------------------------- encoder

\* section 4.C: the transition table the encoder applies
encState(kind, s) ==
    CASE kind = "lit" -> IF s < 4 THEN 0 ELSE IF s <= 9 THEN s - 3 ELSE s - 6
      [] kind = "match" -> IF s < 7 THEN 7 ELSE 10
      [] kind = "shortrep" -> IF s < 7 THEN 9 ELSE 11
      [] OTHER -> IF s < 7 THEN 8 ELSE 11

\* section 4.I: the rep history after an operation of the kind, d the
\* distance offset of a simple match
encRep(kind, r, d) ==
    CASE kind = "match" -> <<d, r[1], r[2], r[3]>>
      [] kind = "rep1" -> <<r[2], r[1], r[3], r[4]>>
      [] kind = "rep2" -> <<r[3], r[1], r[2], r[4]>>
      [] kind = "rep3" -> <<r[4], r[1], r[2], r[3]>>
      [] OTHER -> r

\* the byte of the plain text distance positions behind position pos, 0
\* outside the dictionary
encByteAt(text, pos, distance) ==
    IF 0 < distance /\ distance <= Min(pos, historyLen)
    THEN text[pos - distance + 1]
    ELSE 0

\* the length bytes at position pos repeat those at the distance
matchOK(text, pos, length, distance) ==
    /\ 0 < distance /\ distance <= Min(pos, historyLen)
    /\ pos + length <= Len(text)
    /\ \A i \in 1..length : text[pos + i] = text[pos + i - distance]

\* the distance offset an operation of the kind refers to
encDist(kind, r, d) ==
    CASE kind = "match" -> d
      [] kind \in {"shortrep", "rep0"} -> r[1]
      [] kind = "rep1" -> r[2]
      [] kind = "rep2" -> r[3]
      [] OTHER -> r[4]

\* the operations a selector may choose for the head position pos
encChoices(text, pos, r) ==
    {codedOp("lit", text[pos + 1], 0, 0, FALSE, 0)}
    \cup {c \in WholeOps :
             /\ c.kind # "lit" /\ c.d # eosDistance
             /\ matchOK(text, pos, codedLen(c),
                        encDist(c.kind, r, c.d) + minDistance)}

\* the operation with the contexts it is coded with
withContext(c, text, pos, s, r, pr) ==
    [c EXCEPT !.st = s,
              !.ps = posState(pos, pr),
              !.ls = litState(pos, encByteAt(text, pos, 1), pr),
              !.mb = encByteAt(text, pos, r[1] + 1)]

\* the end of stream marker: a simple match with distance 0xffffffff
eosOp == codedOp("match", 0, 0, eosDistance, TRUE, 0)

\* the stream without its last byte.  The decoder reads the last byte in the
\* last normalisation of the range decoder: inside the distance of a final
\* end of stream marker (Decode call 4), and otherwise inside some Decode
\* call (i, k) of the coded operations
truncations(str) ==
    IF str = <<>> THEN {}
    ELSE IF str[Len(str)].d = eosDistance
    THEN {[str EXCEPT ![Len(str)].cut = 4, ![Len(str)].d = 0]}
    ELSE UNION {{[str EXCEPT ![i].cut = k] : k \in 1..numCalls(str[i].kind)} :
                  i \in 1..Len(str)}

\* ----------------------------------------------------- encoder dictionary

\* the bytes written to an encoder dictionary; none is 0, the value ByteAt
\* returns outside the dictionary
DictBytes == 1..5

\* the caller writes a text whose byte i (from 0) is sourceByte(i): bytes
\* less than five positions apart differ, and a cell of the buffer gets
\* another byte each time round
sourceByte(i) == 1 + (i % Cardinality(DictBytes))

\* len(ed.buf.data): the circular buffer keeps one cell free
bufLen == bufCap + 1

\* EncoderDict after NewEncoderDict: the cells of the circular buffer, front
\* (where Write puts the next byte), rear (the head of the dictionary),
\* pos (ed.m.Pos(), the bytes moved to the matcher), text (every byte
\* written so far) and base (the bytes written before the last Reset)
newEncoderDict ==
    [data |-> [i \in 0..bufCap |-> 0], front |-> 0, rear |-> 0, pos |-> 0,
     text |-> <<>>, base |-> 0]

\* ed.buf.Buffered() and ed.buf.Available()
bufBuffered(d) == (d.front - d.rear) % bufLen
bufAvailable(d) == (d.rear - 1 - d.front) % bufLen

\* ed.buf.Write(p)
bufWrite(d, p) ==
    LET m == bufAvailable(d)
        k == Min(Len(p), m)
        at(i) == (i - d.front) % bufLen
    IN  [ed |-> [d EXCEPT
                    !.data = [i \in 0..bufCap |->
                                 IF at(i) < k THEN p[at(i) + 1] ELSE @[i]],
                    !.front = (@ + k) % bufLen,
                    !.text = @ \o SubSeq(p, 1, k)],
         n |-> k,
         err |-> IF Len(p) > m THEN errNoSpace ELSE nil]

\* lines 245-251
EncoderDictDictLen(d) == IF d.pos > dictCap THEN dictCap ELSE d.pos

\* lines 224-231
EncoderDictLen(d) ==
    IF d.pos > bufAvailable(d) THEN bufAvailable(d) ELSE d.pos

\* lines 213-215
EncoderDictAvailable(d) == bufAvailable(d) - EncoderDictDictLen(d)

\* lines 261-270
EncoderDictByteAt(d, distance) ==
    IF ~(0 < distance /\ distance < EncoderDictLen(d)) THEN 0
    ELSE d.data[(d.rear - distance) % bufLen]

\* Write storing all of p that the buffer takes, the dictionary included
EncoderDictWriteOverDict(d, p) == bufWrite(d, p)

\* lines 273-286
EncoderDictWrite(d, p) ==
    LET m == EncoderDictAvailable(d)
        q == IF Len(p) > m THEN SubSeq(p, 1, m) ELSE p
        w == bufWrite(d, q)
    IN  [ed |-> w.ed, n |-> w.n,
         err |-> IF w.err # nil THEN w.err
                 ELSE IF Len(p) > m THEN errNoSpace ELSE nil]

\* lines 301-304: io.CopyN(ed.m, &ed.buf, n) moves what is buffered, at most
\* n bytes, and reports io.EOF when that is less than n
EncoderDictAdvance(d, k) ==
    LET w == Min(k, bufBuffered(d))
    IN  [ed |-> [d EXCEPT !.rear = (@ + w) % bufLen, !.pos = @ + w],
         n |-> w,
         err |-> IF w < k THEN ioEOF ELSE nil]

\* lines 290-298: Peek, then Advance by what Peek delivered
EncoderDictRead(d, k) == EncoderDictAdvance(d, Min(k, bufBuffered(d)))

\* lines 206-209
EncoderDictReset(d) ==
    [d EXCEPT !.front = 0, !.rear = 0, !.pos = 0, !.base = Len(d.text)]

\* Matches without the upper limit on the distance
EncoderDictMatchesNoLimit(d, positions) ==
    IF bufBuffered(d) < wordLen THEN {}
    ELSE {d.pos - q : q \in {x \in positions : 0 < d.pos - x}}

\* lines 345-364, for the positions the matcher reports
EncoderDictMatches(d, positions) ==
    IF bufBuffered(d) < wordLen THEN {}
    ELSE {d.pos - q :
             q \in {x \in positions :
                       0 < d.pos - x /\ d.pos - x <= EncoderDictDictLen(d)}}

\* encoderDict after _initEncoderDict on a buffer at position 0: head, zero
\* and bufPos, the e.buf.Pos() of its encoderBuffer
newLowerDict == [head |-> 0, zero |-> 0, bufPos |-> 0]

\* lines 56-58
encoderDictPos(x) == x.zero + x.head

\* lines 61-66
encoderDictLen(x) == IF x.head >= dictCap THEN dictCap ELSE x.head

\* lines 70-72
encoderDictBuffered(x) == x.bufPos - encoderDictPos(x)

\* Advance without its check of n
encoderDictAdvanceNoCheck(x, k) ==
    [e |-> [x EXCEPT !.head = @ + k], panic |-> FALSE]

\* lines 75-80
encoderDictAdvance(x, k) ==
    IF ~(0 < k /\ k <= encoderDictBuffered(x))
    THEN [e |-> x, panic |-> TRUE]
    ELSE [e |-> [x EXCEPT !.head = @ + k], panic |-> FALSE]

\* lines 49-52
encoderDictReset(x) == [x EXCEPT !.head = 0, !.zero = x.bufPos]

\* lines 107-125, for the positions the matcher reports
encoderDictMatches(x, positions) ==
    IF encoderDictBuffered(x) < wordLen THEN {}
    ELSE {encoderDictPos(x) - q :
             q \in {y \in positions :
                       /\ 0 < encoderDictPos(x) - y
                       /\ encoderDictPos(x) - y <= encoderDictLen(x)}}

\* the result of the last call on an encoder dictionary: the method, its
\* argument (distance, n, len(p)), the n or byte and the error it returned,
\* the distances of Matches, and the p of Write
noCall ==
    [call |-> "none", arg |-> 0, n |-> 0, err |-> nil, dists |-> {},
     p |-> <<>>]

\* ------------------------------------------------------------------ state

VARIABLES
    \* the Decoder
    props, unpackLen, decodedLen, dict, state, rep,
    \* the Read call in progress: its position, len(p), n, the operation
    \* decodeOp returned to fill; the result of the last Read; all bytes
    \* delivered to the caller
    pc, plen, n, op, ret, out,
    \* the compressed input: the coded operations of the encoder not yet
    \* decoded, whether the range decoder still decodes what the encoder
    \* coded, whether it has hit the end of the input, and where the input
    \* comes from ("enc": the encoder, "trunc": the encoder, last byte
    \* removed, "raw": any input)
    stream, insync, inEnded, src,
    \* the Encoder: the plain text, the EOS marker flag, head position,
    \* state and rep history
    orig, eosMarker, ePos, eState, eRep,
    \* the first decoding error a Read call has returned, nil before; what
    \* the last decodeOp of the current Read call has decoded ("none" before)
    firstErr, coded,
    \* the Read calls made after the first decoding error
    retries,
    \* an EncoderDict, an encoderDict, and the result of the last call on
    \* either
    ed, eDict, edRet

vars == <<props, unpackLen, decodedLen, dict, state, rep, pc, plen, n, op,
          ret, out, stream, insync, inEnded, src, orig, eosMarker, ePos,
          eState, eRep, firstErr, coded, retries, ed, eDict,
          edRet>>

decoderVars == <<decodedLen, dict, state, rep>>
readVars == <<plen, n, op, ret, out, firstErr, retries>>
dictVars == <<ed, eDict, edRet>>

\* what decodeOp has decoded from the coded operation c: "cut" when a Decode
\* call ran out of input, "eos" for the end of stream marker, "badeos" for
\* the marker with rd.possiblyAtEnd() false, and else the kind of operation
decoded(c) ==
    IF c.cut # 0 THEN "cut"
    ELSE IF c.d = eosDistance THEN (IF c.atEnd THEN "eos" ELSE "badeos")
    ELSE c.kind
inputVars == <<stream, insync, inEnded>>
encoderVars == <<ePos, eState, eRep>>
headerVars == <<props, unpackLen, src, orig, eosMarker>>

RECURSIVE SeqsUpTo(_, _)
SeqsUpTo(S, k) ==
    IF k = 0 THEN {<<>>}
    ELSE LET shorter == SeqsUpTo(S, k - 1)
         IN  shorter \cup {Append(q, x) : q \in shorter, x \in S}

\* NewDecoder and the state before the first Write of the encoder, for a
\* caller that has made r of the Read calls it makes after an error
Start(r) ==
    /\ decodedLen = 0
    /\ dict = newDecoderDict
    /\ state = 0
    /\ rep = <<0, 0, 0, 0>>
    /\ plen = 0 /\ n = 0 /\ op = noOp /\ out = <<>>
    /\ ret = [n |-> 0, err |-> nil]
    /\ firstErr = nil
    /\ coded = "none"
    /\ retries = r
    /\ ed = newEncoderDict /\ eDict = newLowerDict /\ edRet = noCall
    /\ stream = <<>> /\ inEnded = FALSE
    /\ ePos = 0 /\ eState = 0 /\ eRep = <<0, 0, 0, 0>>
    /\ \/ /\ src = "raw"
          /\ pc = "idle"
          /\ insync = FALSE
          /\ props = [LC |-> 0, LP |-> 0, PB |-> 0]
          /\ unpackLen \in 0..MaxTotal \cup {noUnpackLen}
          /\ orig = <<>> /\ eosMarker = FALSE
       \/ /\ src = "enc"
          /\ pc = "write"
          /\ insync = TRUE
          /\ props \in PropsSet
          /\ orig \in SeqsUpTo(Bytes, MaxLen)
          /\ eosMarker \in BOOLEAN
          /\ unpackLen \in {Len(orig)} \cup
                            (IF eosMarker THEN {noUnpackLen} ELSE {})

Init == Start(0)

\* ---------------------------------------------------------------- actions

\* Encoder.Write: the encoder codes one operation at the head position
EncodeOp ==
    /\ pc = "write"
    /\ ePos < Len(orig)
    /\ \E c \in encChoices(orig, ePos, eRep) :
          /\ stream' = Append(stream,
                               withContext(c, orig, ePos, eState, eRep, props))
          /\ ePos' = ePos + codedLen(c)
          /\ eState' = encState(c.kind, eState)
          /\ eRep' = encRep(c.kind, eRep, c.d)
    /\ UNCHANGED dictVars
    /\ UNCHANGED <<decoderVars, readVars, headerVars, pc, insync, inEnded,
                   coded>>

\* Encoder.Close: the marker if asked for, and the flush of the range
\* encoder; in the second case the last byte of the stream is then removed
EncClose ==
    /\ pc = "write"
    /\ ePos = Len(orig)
    /\ LET full == IF eosMarker
                   THEN Append(stream, withContext(eosOp, orig, ePos, eState,
                                                   eRep, props))
                   ELSE stream
       IN  \/ stream' = full /\ src' = "enc"
           \/ stream' \in truncations(full) /\ src' = "trunc"
    /\ pc' = "idle"
    /\ UNCHANGED dictVars
    /\ UNCHANGED <<decoderVars, readVars, encoderVars, insync, inEnded,
                   props, unpackLen, orig, eosMarker, coded>>

\* Read returns (k, err) to its caller; the locals of the call are dead
Return(k, err) ==
    /\ pc' = "idle"
    /\ ret' = [n |-> k, err |-> err]
    /\ firstErr' = IF firstErr = nil /\ err \notin {nil, ioEOF}
                   THEN err ELSE firstErr
    /\ plen' = 0 /\ n' = 0 /\ op' = noOp
    /\ UNCHANGED retries

\* the caller calls Read(p) with len(p) = k
ReadCall ==
    /\ pc = "idle"
    /\ retries < MaxRetries
    /\ \E k \in 1..MaxP : plen' = k
    /\ n' = 0
    /\ ret' = [n |-> 0, err |-> nil]
    /\ coded' = "none"
    /\ retries' = IF firstErr # nil THEN retries + 1 ELSE retries
    /\ pc' = "dictRead"
    /\ UNCHANGED dictVars
    /\ UNCHANGED <<decoderVars, inputVars, encoderVars, headerVars, op, out,
                   firstErr>>

\* the switch of Read passing io.EOF on together with the bytes read
readSwitchEOFWithData(n1, err, k) ==
    IF err = ioEOF THEN [done |-> TRUE, n |-> n1, err |-> ioEOF]
    ELSE IF err # nil THEN [done |-> TRUE, n |-> n1, err |-> Errorf(err)]
    ELSE IF n1 = k THEN [done |-> TRUE, n |-> n1, err |-> nil]
    ELSE [done |-> FALSE, n |-> n1, err |-> nil]

\* lines 133-143: what Read does with the n and err it has after
\* d.dict.Read, for len(p) = k: return (done) or call fill
readSwitch(n1, err, k) ==
    IF err = ioEOF
    THEN IF n1 <= 0
         THEN [done |-> TRUE, n |-> 0, err |-> ioEOF]
         ELSE [done |-> TRUE, n |-> n1, err |-> nil]
    ELSE IF err # nil THEN [done |-> TRUE, n |-> n1, err |-> Errorf(err)]
    ELSE IF n1 = k THEN [done |-> TRUE, n |-> n1, err |-> nil]
    ELSE [done |-> FALSE, n |-> n1, err |-> nil]

\* lines 130-143: d.dict.Read(p[n:]) and the switch on its result
DictRead ==
    /\ pc = "dictRead"
    /\ LET res == dictRead(dict, plen - n)
           sw == readSwitch(n + Len(res.bytes), res.err, plen)
       IN  /\ dict' = res.dict
           /\ out' = out \o res.bytes
           /\ IF sw.done
              THEN Return(sw.n, sw.err)
              ELSE /\ pc' = "fill"
                   /\ n' = sw.n
                   /\ UNCHANGED <<plen, op, ret, firstErr, retries>>
    /\ UNCHANGED dictVars
    /\ UNCHANGED <<decodedLen, state, rep, inputVars, encoderVars, headerVars,
                   coded>>

\* the loop of fill never finding the dictionary filled
loopHeadNeverFilled(dct) == "decodeOp"

\* line 159: where fill goes at the head of its loop
loopHead(dct) == IF readable(dct) < bufferLen THEN "decodeOp" ELSE "dictRead"

\* lines 144 and 155-159: Read calls fill; fill returns nil at once when eof
\* is set and else enters its loop
FillEnter ==
    /\ pc = "fill"
    /\ pc' = IF dict.eof THEN "dictRead" ELSE loopHead(dict)
    /\ UNCHANGED dictVars
    /\ UNCHANGED <<decoderVars, readVars, inputVars, encoderVars, headerVars,
                   coded>>

\* fill returns err and Read wraps it (lines 144-146)
FillFail(err) == Return(n, Errorf(err))

\* what the range decoder can deliver for the next decodeOp: the next
\* operation of the encoder as long as the decoder uses the contexts it was
\* coded with; only failing Decode calls after the end of a stream of the
\* encoder; anything else for any other input
nextOps ==
    LET lits == litState(total(dict), getByte(dict, 1), props)
        inCtx(c) == /\ c.st = state
                    /\ c.ps = posState(total(dict), props)
                    /\ c.kind = "lit" =>
                          /\ c.ls = lits
                          /\ state >= 7 => c.mb = getByte(dict, rep[1] + 1)
        more == {c \in RawOps : decodedLen < MaxTotal \/ codedLen(c) = 0}
    IN  IF insync /\ stream # <<>> /\ inCtx(Head(stream))
        THEN {Head(stream)}
        ELSE IF inEnded \/ (insync /\ stream = <<>>)
        THEN IF src = "raw" THEN more \cap GarbageOps ELSE CutOps
        ELSE more

\* the condition of lines 164-165 without its test for noUnpackLen
unexpectedEOSAnyLen(ul, dl) == dl # ul

\* lines 164-165
unexpectedEOS(ul, dl) == ul # noUnpackLen /\ dl # ul

\* the switch of fill taking the end of the input for the end of the stream
decodeErrEOFAsEnd(err, ul, dl) ==
    IF err = eofDecoded /\ unexpectedEOS(ul, dl) THEN errUnexpectedEOS
    ELSE IF err \in {eofDecoded, ioEOF} THEN nil
    ELSE err

\* lines 162-175: the error fill returns for the error err of decodeOp, nil
\* when it sets eof and returns nil
decodeErr(err, ul, dl) ==
    IF err = eofDecoded
    THEN IF unexpectedEOS(ul, dl) THEN errUnexpectedEOS ELSE nil
    ELSE IF err = ioEOF THEN errShortInput
    ELSE err

\* lines 160-176: one call of decodeOp and the switch on its error
DecodeOpStep ==
    /\ pc = "decodeOp"
    /\ \E c \in nextOps :
          LET res == decodeOp(state, rep, c)
              fromStream == insync /\ stream # <<>> /\ c = Head(stream)
              err == decodeErr(res.err, unpackLen, decodedLen)
          IN  /\ state' = res.state
              /\ rep' = res.rep
              /\ coded' = decoded(c)
              /\ stream' = IF fromStream THEN Tail(stream) ELSE stream
              /\ insync' = (fromStream /\ c.cut = 0)
              /\ inEnded' = (inEnded \/ c.cut # 0 \/ (insync /\ stream = <<>>))
              /\ IF res.err = nil
                 THEN /\ op' = res.op
                      /\ pc' = "apply"
                      /\ UNCHANGED <<dict, plen, n, ret, firstErr, retries>>
                 ELSE IF err = nil
                 THEN /\ dict' = [dict EXCEPT !.eof = TRUE]
                      /\ pc' = "dictRead"
                      /\ UNCHANGED <<plen, n, op, ret, firstErr, retries>>
                 ELSE FillFail(err) /\ UNCHANGED dict
    /\ UNCHANGED dictVars
    /\ UNCHANGED <<decodedLen, out, encoderVars, headerVars>>

\* the test of line 182 one byte late, and one byte early
tooLongOffByOne(n1, ul) == n1 > ul + 1
tooLongAtLimit(n1, ul) == n1 >= ul

\* line 182
tooLong(n1, ul) == n1 > ul

\* line 178 counting operations instead of bytes
newLenCountOps(dl, o) == dl + 1

\* line 178: n := d.decodedLen + uint64(op.Len())
newLen(dl, o) == dl + OpLen(o)

\* fill writing a match as one block copy: the bytes the match itself writes
\* are read as 0
ApplyOpBlockCopy ==
    /\ pc = "apply"
    /\ LET n1 == newLen(decodedLen, op)
           res == applyDecoderDict(op, dict)
           len == Len(dict.data)
           block == [i \in 1..OpLen(op) |->
                       IF i <= op.distance
                       THEN dict.data[len - op.distance + i] ELSE 0]
           written == IF op.t = "lit" THEN res.dict
                      ELSE [dict EXCEPT !.data = @ \o block]
       IN  IF tooLong(n1, unpackLen)
           THEN /\ dict' = [dict EXCEPT !.eof = TRUE]
                /\ FillFail(errTooLong)
                /\ UNCHANGED decodedLen
           ELSE /\ decodedLen' = n1
                /\ IF res.err # nil
                   THEN FillFail(res.err) /\ UNCHANGED dict
                   ELSE /\ dict' = [written EXCEPT !.eof = (n1 = unpackLen)]
                        /\ pc' = IF n1 = unpackLen THEN "dictRead"
                                 ELSE loopHead(written)
                        /\ op' = noOp
                        /\ UNCHANGED <<plen, n, ret, firstErr, retries>>
    /\ UNCHANGED dictVars
    /\ UNCHANGED <<state, rep, out, inputVars, encoderVars, headerVars,
                   coded>>

\* lines 178-195: the length check, the dictionary write, the end at
\* unpackLen and the loop condition
ApplyOp ==
    /\ pc = "apply"
    /\ LET n1 == newLen(decodedLen, op)
           res == applyDecoderDict(op, dict)
       IN  IF tooLong(n1, unpackLen)
           THEN /\ dict' = [dict EXCEPT !.eof = TRUE]
                /\ FillFail(errTooLong)
                /\ UNCHANGED decodedLen
           ELSE /\ decodedLen' = n1
                /\ IF res.err # nil
                   THEN FillFail(res.err) /\ UNCHANGED dict
                   ELSE IF n1 = unpackLen
                   THEN /\ dict' = [res.dict EXCEPT !.eof = TRUE]
                        /\ pc' = "dictRead"
                        /\ op' = noOp
                        /\ UNCHANGED <<plen, n, ret, firstErr, retries>>
                   ELSE /\ dict' = res.dict
                        /\ pc' = loopHead(res.dict)
                        /\ op' = noOp
                        /\ UNCHANGED <<plen, n, ret, firstErr, retries>>
    /\ UNCHANGED dictVars
    /\ UNCHANGED <<state, rep, out, inputVars, encoderVars, headerVars,
                   coded>>

Next ==
    \/ EncodeOp
    \/ EncClose
    \/ ReadCall
    \/ DictRead
    \/ FillEnter
    \/ DecodeOpStep
    \/ ApplyOp

Spec == Init /\ [][Next]_vars

\* A Read call in progress runs on: each step of Read and fill is taken once
\* it is enabled.  Nothing is asked of the caller or of the encoder.
\* the caller makes one Read call after an error
InitLive == Start(MaxRetries - 1)

SpecLive ==
    /\ InitLive
    /\ [][Next]_vars
    /\ WF_vars(DictRead)
    /\ WF_vars(FillEnter)
    /\ WF_vars(DecodeOpStep)
    /\ WF_vars(ApplyOp)

\* ------------------------------------------- the operations on their own

\* The loop of decodeOp calls without the dictionary and the byte counts: the
\* state register and the rep history under every sequence of coded
\* operations, with four different distance offsets.
OpDistOffs == 0..3

OpInputs ==
    {codedOp("lit", 0, 0, 0, FALSE, 0)}
    \cup {codedOp("match", 0, 0, d, FALSE, 0) : d \in OpDistOffs}
    \cup {codedOp("match", 0, 0, eosDistance, e, 0) : e \in BOOLEAN}
    \cup {codedOp(k, 0, 0, 0, FALSE, 0) :
             k \in {"shortrep", "rep0", "rep1", "rep2", "rep3"}}
    \cup {c \in CutOps : c.cut = numCalls(c.kind)}

\* NewDecoder, for an input without declared length
InitOps ==
    /\ decodedLen = 0
    /\ dict = newDecoderDict
    /\ state = 0
    /\ rep = <<0, 0, 0, 0>>
    /\ plen = 0 /\ n = 0 /\ op = noOp /\ out = <<>>
    /\ ret = [n |-> 0, err |-> nil]
    /\ firstErr = nil
    /\ coded = "none"
    /\ retries = 0
    /\ ed = newEncoderDict /\ eDict = newLowerDict /\ edRet = noCall
    /\ stream = <<>> /\ inEnded = FALSE /\ insync = FALSE
    /\ ePos = 0 /\ eState = 0 /\ eRep = <<0, 0, 0, 0>>
    /\ src = "raw"
    /\ pc = "ops"
    /\ props = [LC |-> 0, LP |-> 0, PB |-> 0]
    /\ unpackLen = noUnpackLen
    /\ orig = <<>> /\ eosMarker = FALSE

\* lines 160-176 and 272-369: one call of decodeOp; no call follows the end
\* of stream marker.  firstErr is the first error fill returns.
OpStep ==
    /\ pc = "ops"
    /\ coded # "eos"
    /\ \E c \in OpInputs :
          LET res == decodeOp(state, rep, c)
              err == decodeErr(res.err, unpackLen, decodedLen)
          IN  /\ state' = res.state
              /\ rep' = res.rep
              /\ op' = res.op
              /\ coded' = decoded(c)
              /\ firstErr' = IF firstErr = nil /\ res.err # nil /\ err # nil
                             THEN Errorf(err) ELSE firstErr
    /\ UNCHANGED dictVars
    /\ UNCHANGED <<decodedLen, dict, pc, plen, n, ret, out, retries,
                   inputVars, encoderVars, headerVars>>

NextOps == OpStep

SpecOps == InitOps /\ [][NextOps]_vars

\* -------------------------------------------- the encoder dictionaries

\* the decoder is constructed and left alone; the calls are made on ed
\* (pc = "ed") or on eDict (pc = "eDict")
InitDict ==
    /\ decodedLen = 0
    /\ dict = newDecoderDict
    /\ state = 0
    /\ rep = <<0, 0, 0, 0>>
    /\ plen = 0 /\ n = 0 /\ op = noOp /\ out = <<>>
    /\ ret = [n |-> 0, err |-> nil]
    /\ firstErr = nil
    /\ coded = "none"
    /\ retries = 0
    /\ ed = newEncoderDict /\ eDict = newLowerDict /\ edRet = noCall
    /\ stream = <<>> /\ inEnded = FALSE /\ insync = FALSE
    /\ ePos = 0 /\ eState = 0 /\ eRep = <<0, 0, 0, 0>>
    /\ src = "raw"
    /\ pc \in {"ed", "eDict"}
    /\ props = [LC |-> 0, LP |-> 0, PB |-> 0]
    /\ unpackLen = noUnpackLen
    /\ orig = <<>> /\ eosMarker = FALSE

\* what the calls on the dictionaries leave alone
parked ==
    <<decoderVars, readVars, inputVars, encoderVars, headerVars, pc, coded>>

\* the positions a matcher reports for the word at head hpos: any one or two
\* positions around the dictionary, in it or not
reported(hpos) ==
    LET near == (hpos - dictCap - 1)..(hpos + 1)
    IN  {{a, b} : a, b \in near}

\* the next k bytes of the text the caller writes to d
nextBytes(d, k) == [j \in 1..k |-> sourceByte(Len(d.text) + j - 1)]

\* ed.Write(p) with the next bytes of the text, those a short Write has left
\* first
EdWrite ==
    /\ pc = "ed"
    /\ \E k \in 0..MaxWrite :
          LET p == nextBytes(ed, k)
              w == EncoderDictWrite(ed, p)
          IN  /\ Len(w.ed.text) <= MaxWritten
              /\ ed' = w.ed
              /\ edRet' = [call |-> "Write", arg |-> Len(p), n |-> w.n,
                           err |-> w.err, dists |-> {}, p |-> p]
    /\ UNCHANGED <<eDict, parked>>

\* ed.Advance(n)
EdAdvance ==
    /\ pc = "ed"
    /\ \E k \in 0..MaxWrite :
          LET w == EncoderDictAdvance(ed, k)
          IN  /\ ed' = w.ed
              /\ edRet' = [call |-> "Advance", arg |-> k, n |-> w.n,
                           err |-> w.err, dists |-> {}, p |-> <<>>]
    /\ UNCHANGED <<eDict, parked>>

\* ed.Read(p) with len(p) = k
EdRead ==
    /\ pc = "ed"
    /\ \E k \in 0..MaxWrite :
          LET w == EncoderDictRead(ed, k)
          IN  /\ ed' = w.ed
              /\ edRet' = [call |-> "Read", arg |-> k, n |-> w.n,
                           err |-> w.err, dists |-> {}, p |-> <<>>]
    /\ UNCHANGED <<eDict, parked>>

\* ed.Reset()
EdReset ==
    /\ pc = "ed"
    /\ ed' = EncoderDictReset(ed)
    /\ edRet' = [noCall EXCEPT !.call = "Reset"]
    /\ UNCHANGED <<eDict, parked>>

\* ed.ByteAt(distance)
EdByteAt ==
    /\ pc = "ed"
    /\ \E distance \in 0..(bufCap + 1) :
          edRet' = [call |-> "ByteAt", arg |-> distance,
                    n |-> EncoderDictByteAt(ed, distance), err |-> nil,
                    dists |-> {}, p |-> <<>>]
    /\ UNCHANGED <<ed, eDict, parked>>

\* ed.Matches()
EdMatches ==
    /\ pc = "ed"
    /\ \E positions \in reported(ed.pos) :
          edRet' = [call |-> "Matches", arg |-> 0, n |-> 0, err |-> nil,
                    dists |-> EncoderDictMatches(ed, positions), p |-> <<>>]
    /\ UNCHANGED <<ed, eDict, parked>>

\* k bytes are written to the encoder buffer of eDict
EWrite ==
    /\ pc = "eDict"
    /\ \E k \in 1..MaxWrite :
          /\ eDict.bufPos + k <= MaxWritten
          /\ eDict' = [eDict EXCEPT !.bufPos = @ + k]
          /\ edRet' = [noCall EXCEPT !.call = "Write", !.arg = k, !.n = k]
    /\ UNCHANGED <<ed, parked>>

\* eDict.Advance(n); a panic leaves the dictionary as it was
EAdvance ==
    /\ pc = "eDict"
    /\ \E k \in 0..(MaxWrite + 1) :
          LET w == encoderDictAdvance(eDict, k)
          IN  /\ eDict' = w.e
              /\ edRet' = [noCall EXCEPT
                              !.call = "Advance", !.arg = k,
                              !.err = IF w.panic THEN errAdvance ELSE nil]
    /\ UNCHANGED <<ed, parked>>

\* eDict.Reset()
EReset ==
    /\ pc = "eDict"
    /\ eDict' = encoderDictReset(eDict)
    /\ edRet' = [noCall EXCEPT !.call = "Reset"]
    /\ UNCHANGED <<ed, parked>>

\* eDict.Matches()
EMatches ==
    /\ pc = "eDict"
    /\ \E positions \in reported(encoderDictPos(eDict)) :
          edRet' = [noCall EXCEPT
                       !.call = "Matches",
                       !.dists = encoderDictMatches(eDict, positions)]
    /\ UNCHANGED <<ed, eDict, parked>>

NextDict ==
    \/ EdWrite
    \/ EdAdvance
    \/ EdRead
    \/ EdReset
    \/ EdByteAt
    \/ EdMatches
    \/ EWrite
    \/ EAdvance
    \/ EReset
    \/ EMatches

SpecDict == InitDict /\ [][NextDict]_vars

\* ------------------------------------------------------------- properties

IsPrefix(a, b) == Len(a) <= Len(b) /\ SubSeq(b, 1, Len(a)) = a

\* the four kinds of operation of the state table
opKind(k) == IF k \in {"rep0", "rep1", "rep2", "rep3"} THEN "rep" ELSE k

\* the rep histories the distance offsets of an input can leave behind
RepHistories == {<<a, b, b, a>> : a \in DistOffs, b \in DistOffs}

\* C1: round trip.  Reading the stream the encoder has written with the EOS
\* marker (and closed) never fails, delivers a prefix of the plain text at any
\* time, and has delivered exactly the plain text when Read returns io.EOF.
C1_RoundTrip ==
    src = "enc" /\ eosMarker =>
        /\ firstErr = nil
        /\ ret.err \in {nil, ioEOF}
        /\ IsPrefix(dict.data, orig)
        /\ IsPrefix(out, orig)
        /\ pc = "idle" /\ ret.err = ioEOF => out = orig

\* a text of the greatest length, coded with short reps and closed with the
\* marker under the sentinel length, has been read back to io.EOF
C1_Witness ==
    /\ src = "enc" /\ eosMarker /\ unpackLen = noUnpackLen
    /\ pc = "idle" /\ ret.err = ioEOF
    /\ Len(orig) = MaxLen /\ out = orig
    /\ props.PB = 1
    /\ state = 10

\* C2: decodedLen and the total of the dictionary never decrease, and never
\* exceed a finite unpackLen.
C2_LengthMonotoneAndBounded ==
    /\ [](unpackLen # noUnpackLen =>
             decodedLen <= unpackLen /\ total(dict) <= unpackLen)
    /\ [][decodedLen' >= decodedLen /\ total(dict') >= total(dict)]_vars

\* an operation that would pass unpackLen has been refused one byte short
C2_Witness ==
    /\ pc = "idle" /\ ret.err = Errorf(errTooLong)
    /\ unpackLen = MaxTotal
    /\ decodedLen = unpackLen - 1
    /\ total(dict) = decodedLen

\* C3: once a Read call has returned a decoding error, every later Read call
\* returns that same error.
C3_ErrorsPoison ==
    pc = "idle" /\ firstErr # nil => ret.err = firstErr

\* C4: a Read that returns io.EOF returns n = 0 after every byte written to
\* the dictionary has been delivered; a Read that delivers bytes does not
\* report io.EOF; the end of the compressed input is not reported as io.EOF.
C4_EOFOnlyAfterLastByte ==
    pc = "idle" =>
        /\ ret.err = ioEOF =>
              /\ ret.n = 0
              /\ dict.eof
              /\ dict.r = total(dict)
              /\ out = dict.data
        /\ ret.n > 0 => ret.err # ioEOF
        /\ coded = "cut" => ret.err \notin {nil, ioEOF}

\* io.EOF after two or more bytes, with no error before it
C4_Witness ==
    /\ pc = "idle" /\ ret.err = ioEOF /\ firstErr = nil
    /\ Len(out) >= 2
    /\ src = "raw"

\* C5 as stated: a decoded EOS marker fails with errUnexpectedEOS when a
\* finite unpackLen differs from decodedLen, and otherwise ends the stream
\* normally (eof set, no error).
C5_MarkerAsStated ==
    coded \in {"eos", "badeos"} =>
        IF unpackLen # noUnpackLen /\ decodedLen # unpackLen
        THEN pc = "idle" /\ ret.err = Errorf(errUnexpectedEOS) /\ ~dict.eof
        ELSE dict.eof /\ ret.err \in {nil, ioEOF}

\* C5 amended: that holds of a marker after which the range decoder is at its
\* end (possiblyAtEnd, code == 0); any other marker fails with
\* errWrongTermination, whatever the lengths.
C5_MarkerAtEnd ==
    /\ coded = "eos" =>
          IF unpackLen # noUnpackLen /\ decodedLen # unpackLen
          THEN pc = "idle" /\ ret.err = Errorf(errUnexpectedEOS) /\ ~dict.eof
          ELSE dict.eof /\ ret.err \in {nil, ioEOF}
    /\ coded = "badeos" =>
          pc = "idle" /\ ret.err = Errorf(errWrongTermination) /\ ~dict.eof

\* the marker after 2 of 3 declared bytes
C5_Witness ==
    /\ coded = "eos" /\ pc = "idle"
    /\ unpackLen = 3 /\ decodedLen = 2
    /\ ret.err = Errorf(errUnexpectedEOS)

\* C6 as stated: under the sentinel unpackLen a Read that finds the input
\* ended before a marker fails with errUnexpectedEOS.
C6_MissingMarkerAsStated ==
    unpackLen = noUnpackLen /\ pc = "idle" /\ coded = "cut" =>
        ret.err = Errorf(errUnexpectedEOS)

\* C6 amended: it fails with "unexpected end of compressed stream"; once the
\* input has ended eof is never set and no Read returns io.EOF.
C6_MissingMarkerShortInput ==
    unpackLen = noUnpackLen /\ inEnded =>
        /\ ~dict.eof
        /\ ret.err # ioEOF
        /\ pc = "idle" /\ coded = "cut" => ret.err = Errorf(errShortInput)

\* the input ends after two bytes have been decoded
C6_Witness ==
    /\ unpackLen = noUnpackLen /\ inEnded
    /\ pc = "idle" /\ coded = "cut"
    /\ total(dict) = 2
    /\ ret.err = Errorf(errShortInput)

\* C7 as stated: when "decoded stream too long" is raised the first
\* unpackLen bytes have been produced.
C7_TooLongAsStated ==
    pc = "idle" /\ ret.err = Errorf(errTooLong) => total(dict) = unpackLen

\* C7 amended: the error is raised for the operation that would take
\* decodedLen from unpackLen or below to beyond it, before that operation is
\* applied: eof is set, and fewer than unpackLen bytes have been produced
\* unless unpackLen is 0.  Operations that reach unpackLen exactly set eof.
C7_TooLongBeforeApply ==
    /\ [](/\ pc = "idle" /\ ret.err = Errorf(errTooLong) =>
                /\ dict.eof
                /\ coded \in Kinds
                /\ decodedLen <= unpackLen
                /\ unpackLen > 0 => total(dict) < unpackLen
          /\ unpackLen > 0 /\ total(dict) = unpackLen => dict.eof)
    /\ [][pc = "apply" /\ ret'.err = Errorf(errTooLong) =>
             /\ decodedLen + OpLen(op) > unpackLen
             /\ decodedLen' = decodedLen
             /\ dict'.data = dict.data]_vars

\* a match refused after the first of two declared bytes
C7_Witness ==
    /\ pc = "idle" /\ ret.err = Errorf(errTooLong)
    /\ unpackLen = 2 /\ decodedLen = 1 /\ total(dict) = 1
    /\ dict.eof

\* C8: for every finite unpackLen, 0 included, no operation is decoded once
\* the dictionary holds unpackLen bytes.
C8_NoOpAtUnpackLen ==
    unpackLen # noUnpackLen /\ total(dict) = unpackLen => pc # "decodeOp"

\* C9 as stated: the reads on a stream of the encoder without its last byte
\* never deliver the whole plain text and end with io.EOF.
C9_TruncationAsStated ==
    src = "trunc" =>
        ~(pc = "idle" /\ ret.err = ioEOF /\ out = orig /\ firstErr = nil)

\* C9 amended: that holds when the decoder has to read the stream to its
\* end, that is under the sentinel unpackLen or without the marker: the first
\* error is "unexpected end of compressed stream", and before it the reads
\* deliver a prefix of the plain text and no io.EOF.
C9_TruncationShortInput ==
    src = "trunc" /\ (unpackLen = noUnpackLen \/ ~eosMarker) =>
        /\ firstErr \in {nil, Errorf(errShortInput)}
        /\ firstErr = nil => ret.err = nil /\ IsPrefix(out, orig)
        /\ ret.err = ioEOF => firstErr = Errorf(errShortInput)
        /\ pc = "idle" /\ coded = "cut" => ret.err = Errorf(errShortInput)

\* the whole text delivered, then the error in place of io.EOF
C9_Witness ==
    /\ src = "trunc" /\ eosMarker /\ unpackLen = noUnpackLen
    /\ Len(orig) = MaxLen /\ out = orig
    /\ pc = "idle" /\ coded = "cut"
    /\ ret.err = Errorf(errShortInput)

\* C10: state is in 0..11, and the state after an operation is the one any
\* coding of an operation of the same kind (literal, simple match, rep, short
\* rep) gives from the state before, whatever its byte, length, distance and
\* rep history.
C10_StateFunctionOfKind ==
    /\ [](state \in 0..(states - 1))
    /\ [][pc = "decodeOp" /\ pc' = "apply" =>
             \A c \in WholeOps : \A r \in RepHistories :
                 c.d # eosDistance /\ opKind(c.kind) = opKind(coded') =>
                     decodeOp(state, r, c).state = state']_vars

\* a rep match decoded from a state of 7 or more
C10_Witness ==
    /\ pc = "apply" /\ coded = "rep2"
    /\ state = 11
    /\ decodedLen >= 2

\* how often d occurs in the rep history r
Occurs(r, d) == Cardinality({i \in 1..4 : r[i] = d})

Distinct(r) == \A i, j \in 1..4 : r[i] = r[j] => i = j

NonLiterals == {"match", "shortrep", "rep0", "rep1", "rep2", "rep3"}

\* C11: the four transition functions equal the table for every state in
\* 0..11 (literal: s < 4 to 0, 4..9 to s - 3, 10..11 to s - 6; simple match:
\* s < 7 to 7, else 10; rep: s < 7 to 8, else 11; short rep: s < 7 to 9, else
\* 11), and every decoded operation moves state by the table.
C11_TransitionTable ==
    /\ [](\A s \in 0..(states - 1) :
             /\ updateStateLiteral(s) =
                    (IF s < 4 THEN 0 ELSE IF s <= 9 THEN s - 3 ELSE s - 6)
             /\ updateStateMatch(s) = (IF s < 7 THEN 7 ELSE 10)
             /\ updateStateRep(s) = (IF s < 7 THEN 8 ELSE 11)
             /\ updateStateShortRep(s) = (IF s < 7 THEN 9 ELSE 11))
    /\ [][pc = "ops" /\ coded' \in Kinds =>
             state' = encState(coded', state)]_vars

\* two literals after a short rep: 9 to 6 to 3
C11_Witness ==
    /\ pc = "ops" /\ coded = "lit" /\ firstErr = nil
    /\ state = 3

\* C12: a rep1, rep2 or rep3 operation moves the selected entry of rep to
\* the front and shifts the entries before it down by one, keeping their
\* order: every distance occurs as often after as before, and four distinct
\* entries stay distinct.
C12_RepPermutation ==
    [][pc = "ops" /\ coded' \in {"rep1", "rep2", "rep3"} =>
          /\ coded' = "rep1" => rep' = <<rep[2], rep[1], rep[3], rep[4]>>
          /\ coded' = "rep2" => rep' = <<rep[3], rep[1], rep[2], rep[4]>>
          /\ coded' = "rep3" => rep' = <<rep[4], rep[1], rep[2], rep[3]>>
          /\ \A d \in OpDistOffs \cup {eosDistance} :
                Occurs(rep', d) = Occurs(rep, d)
          /\ Distinct(rep) => Distinct(rep')]_vars

\* rep3 on four distinct distances
C12_Witness ==
    /\ pc = "ops" /\ coded = "rep3" /\ firstErr = nil
    /\ rep = <<0, 3, 2, 1>>

\* C18: rep is (0, 0, 0, 0) initially; a simple match with decoded distance
\* dist turns (r0, r1, r2, r3) into (dist, r0, r1, r2); a literal, a short
\* rep and a rep0 match leave rep unchanged.
C18_RepUpdateByKind ==
    /\ [](coded = "none" => rep = <<0, 0, 0, 0>>)
    /\ [][pc = "ops" /\ coded' = "match" =>
             rep' = <<op'.distance - minDistance, rep[1], rep[2], rep[3]>>]_vars
    /\ [][pc = "ops" /\ coded' \in {"lit", "shortrep", "rep0"} =>
             rep' = rep]_vars

\* the fourth simple match, with a distance of its own
C18_Witness ==
    /\ pc = "ops" /\ coded = "match" /\ firstErr = nil
    /\ op.distance = 3 + minDistance
    /\ rep = <<3, 2, 1, 0>>

\* C19: as long as every operation has been decoded without error, state >=
\* 7 exactly when the last decoded operation was a simple match, a rep or a
\* short rep, and state <= 6 exactly when it was a literal or none has been
\* decoded; so a literal is decoded from a state >= 7 only directly after
\* such an operation.
C19_StateTellsLastOp ==
    /\ [](pc = "ops" /\ firstErr = nil /\ coded # "eos" =>
             /\ state >= 7 <=> coded \in NonLiterals
             /\ state <= 6 <=> coded \in {"lit", "none"})
    /\ [][pc = "ops" /\ firstErr' = nil /\ coded' = "lit" /\ state >= 7 =>
             coded \in NonLiterals]_vars

\* a literal decoded from state 11, after a rep match that followed a match
C19_Witness ==
    /\ pc = "ops" /\ firstErr = nil
    /\ coded = "lit" /\ state = 5
    /\ rep = <<1, 0, 0, 0>>

\* the bytes a decoded operation stands for behind the bytes data: a match
\* repeats the last distance bytes
opBytes(o, data) ==
    IF o.t = "lit" THEN <<o.b>>
    ELSE [i \in 1..o.length |->
             data[Len(data) - o.distance + 1 + ((i - 1) % o.distance)]]

\* C17: decodeOp has made all its reads from the range coder before the
\* operation is written (the step that decodes writes nothing); the
\* operation written is the one decoded last, once; its bytes are appended
\* in increasing position, each match byte copied from distance behind the
\* byte being written; the reads deliver the dictionary bytes in that order.
C17_Ordering ==
    /\ [](out = SubSeq(dict.data, 1, dict.r))
    /\ [][pc = "decodeOp" =>
             /\ dict'.data = dict.data
             /\ pc' = "apply" => op' # noOp /\ (op'.t = "lit" <=> coded' = "lit")]_vars
    /\ [][dict'.data # dict.data =>
             /\ pc = "apply" /\ op # noOp /\ op' = noOp
             /\ dict'.data = dict.data \o opBytes(op, dict.data)]_vars

\* a match longer than its distance has been written behind a literal
C17_Witness ==
    /\ src = "enc" /\ firstErr = nil
    /\ dict.data = <<200, 200, 200>>
    /\ coded = "match"
    /\ out = <<200, 200>>

\* C20: as long as no Read has returned an error decodedLen equals
\* dict.total, so at every call of decodeOp; the counters differ only after
\* an error has been returned, and then decodedLen is the greater.
C20_CountersInStep ==
    /\ firstErr = nil => decodedLen = total(dict)
    /\ decodedLen # total(dict) => firstErr # nil /\ decodedLen > total(dict)

\* decodeOp is called for the third byte, with a position state of its own
C20_Witness ==
    /\ pc = "decodeOp" /\ firstErr = nil
    /\ decodedLen = 2 /\ total(dict) = 2
    /\ props.PB = 1

\* the bytes buffered in front of the head of ed, and the bytes of its
\* dictionary from distance 1 on, as the cells of the buffer hold them
bufContents(d) ==
    [i \in 1..bufBuffered(d) |-> d.data[(d.rear + i - 1) % bufLen]]
dictContents(d) ==
    [i \in 1..EncoderDictDictLen(d) |-> d.data[(d.rear - i) % bufLen]]

\* C13: EncoderDict.ByteAt(distance) returns the byte at head - distance for
\* every distance from 1 to the length of the dictionary, the length
\* included, and 0 for every other distance.
C13_ByteAtInclusive ==
    pc = "ed" /\ edRet.call = "ByteAt" =>
        edRet.n = IF 0 < edRet.arg /\ edRet.arg <= EncoderDictDictLen(ed)
                  THEN ed.text[ed.base + ed.pos - edRet.arg + 1]
                  ELSE 0

\* C14: every distance Matches() returns lies in 1..current dictionary
\* length, which is at most the dictionary capacity, whatever positions the
\* matcher reports, and Matches() returns nothing when fewer than wordLen
\* bytes are buffered at the head; for both encoder dictionaries.
C14_MatchesInDictionary ==
    edRet.call = "Matches" =>
        /\ pc = "ed" =>
              /\ EncoderDictDictLen(ed) <= dictCap
              /\ \A d \in edRet.dists : 0 < d /\ d <= EncoderDictDictLen(ed)
              /\ bufBuffered(ed) < wordLen => edRet.dists = {}
        /\ pc = "eDict" =>
              /\ encoderDictLen(eDict) <= dictCap
              /\ \A d \in edRet.dists : 0 < d /\ d <= encoderDictLen(eDict)
              /\ encoderDictBuffered(eDict) < wordLen => edRet.dists = {}

\* Matches() of ed has returned a distance
C14_Witness ==
    /\ pc = "ed"
    /\ edRet.call = "Matches"
    /\ edRet.dists # {}
    /\ bufBuffered(ed) >= wordLen

\* C15 as stated: in every state of the encoder dictionary reachable by
\* Write, Advance and Reset, head - zero is at most the dictionary capacity,
\* the bytes buffered ahead of the head are not negative, and the absolute
\* position of the head never decreases.
C15_HeadWithinCapacity ==
    /\ [](pc = "eDict" =>
            /\ encoderDictPos(eDict) - eDict.zero <= dictCap
            /\ encoderDictBuffered(eDict) >= 0)
    /\ [][pc = "eDict" => encoderDictPos(eDict)' >= encoderDictPos(eDict)]_vars

\* C15: in every such state the length of the dictionary, Len(), is
\* min(head - zero, capacity) and so at most the capacity, while head - zero
\* itself counts every byte advanced since the last Reset; the buffered
\* bytes are not negative and the absolute position of the head never
\* decreases, across Reset as well.
C15_LenWithinCapacity ==
    /\ [](pc = "eDict" =>
            /\ eDict.head >= 0
            /\ encoderDictPos(eDict) - eDict.zero = eDict.head
            /\ encoderDictLen(eDict) = Min(eDict.head, dictCap)
            /\ encoderDictLen(eDict) <= dictCap
            /\ encoderDictBuffered(eDict) >= 0)
    /\ [][pc = "eDict" => encoderDictPos(eDict)' >= encoderDictPos(eDict)]_vars

\* after a Reset behind written bytes the head has advanced by more than
\* the capacity
C15_Witness ==
    /\ pc = "eDict"
    /\ eDict.zero > 0
    /\ eDict.head > dictCap
    /\ edRet.call = "Advance" /\ edRet.err = nil

\* a step of ed.Write(p): it stores the first min(len(p), Available())
\* bytes of p behind the buffered ones, returns that count, with errNoSpace
\* exactly when len(p) > Available(), and moves neither the head nor a byte
\* of the dictionary or of the bytes already buffered
writeTruncates ==
    LET m == EncoderDictAvailable(ed)
        k == Min(Len(edRet'.p), m)
    IN  /\ edRet'.n = k
        /\ edRet'.err = IF Len(edRet'.p) > m THEN errNoSpace ELSE nil
        /\ ed'.text = ed.text \o SubSeq(edRet'.p, 1, k)
        /\ ed'.pos = ed.pos /\ ed'.rear = ed.rear
        /\ dictContents(ed') = dictContents(ed)
        /\ bufContents(ed') = bufContents(ed) \o SubSeq(edRet'.p, 1, k)

\* the bytes of p the last Write did not store
remaining == SubSeq(edRet.p, edRet.n + 1, Len(edRet.p))

\* C16 as stated: Write(p) with len(p) > Available() stores the first
\* Available() bytes, returns that count with errNoSpace and leaves the
\* dictionary and the buffered bytes unchanged, with len(p) <= Available() it
\* stores all of p without error; and once the caller has consumed buffered
\* data with Read or Advance, a Write of the remaining bytes succeeds.
C16_RecoverableAsStated ==
    [][pc = "ed" =>
          /\ edRet'.call = "Write" => writeTruncates
          /\ /\ edRet.call = "Write" /\ edRet.err = errNoSpace
             /\ edRet'.call \in {"Advance", "Read"} /\ edRet'.n > 0
             => EncoderDictWrite(ed', remaining).err = nil]_vars

\* C16: Write truncates as stated.  Consuming w buffered bytes with Read or
\* Advance raises Available() by w less the growth of the dictionary, which
\* is nothing while the dictionary is below its capacity; with nothing left
\* buffered Available() is bufCap - DictLen(), so a remaining part of at most
\* bufCap - dictCap bytes is then stored whole.
C16_WriteTruncates ==
    /\ [](pc = "ed" =>
            /\ EncoderDictAvailable(ed) >= 0
            /\ bufContents(ed) =
                   SubSeq(ed.text, ed.base + ed.pos + 1, Len(ed.text))
            /\ \A i \in 1..EncoderDictDictLen(ed) :
                  dictContents(ed)[i] = ed.text[ed.base + ed.pos - i + 1]
            /\ bufBuffered(ed) = 0 =>
                  /\ EncoderDictAvailable(ed) = bufCap - EncoderDictDictLen(ed)
                  /\ \A k \in 0..(bufCap - dictCap) :
                        EncoderDictWrite(ed, nextBytes(ed, k)).err = nil)
    /\ [][pc = "ed" =>
             /\ edRet'.call = "Write" => writeTruncates
             /\ edRet'.call \in {"Advance", "Read"} =>
                   /\ EncoderDictAvailable(ed') =
                          EncoderDictAvailable(ed) + edRet'.n
                          - (EncoderDictDictLen(ed') - EncoderDictDictLen(ed))
                   /\ EncoderDictAvailable(ed') >= EncoderDictAvailable(ed)]_vars

\* a Write around the end of the buffer, behind a full dictionary, has
\* stored a part of p
C16_Witness ==
    /\ pc = "ed"
    /\ edRet.call = "Write" /\ edRet.err = errNoSpace /\ edRet.n > 0
    /\ ed.front < ed.rear
    /\ EncoderDictDictLen(ed) = dictCap

\* the positions of a Read call in progress, and those of its call of fill,
\* which Read leaves only through its return or through "dictRead"
InRead == pc \in {"dictRead", "fill", "decodeOp", "apply"}
InFill == pc \in {"fill", "decodeOp", "apply"}

\* C21: every call of fill terminates: an iteration of its loop either
\* returns (an error, the end of stream marker, unpackLen reached) or applies
\* an operation of length >= 1 and so increases the readable bytes, and the
\* loop is entered again only while they are fewer than bufferLen; so every
\* call of fill returns and every Read call returns.
C21_FillTerminates ==
    /\ [][/\ pc = "apply" /\ pc' \in {"decodeOp", "dictRead"} =>
               /\ OpLen(op) >= 1
               /\ readable(dict') = readable(dict) + OpLen(op)
          /\ InFill /\ pc' = "decodeOp" => readable(dict') < bufferLen
          /\ pc = "dictRead" /\ pc' = "fill" => readable(dict') = 0]_vars
    /\ InRead ~> pc = "idle"

\* fill has left its loop with the dictionary filled after more than one
\* operation, the last of them a literal
C21_Witness ==
    /\ pc = "dictRead"
    /\ coded = "lit"
    /\ ~dict.eof
    /\ readable(dict) >= bufferLen
    /\ bufferLen >= 2

====
